---------------------------- MODULE Spec2Model ----------------------------
(***************************************************************************)
(* A model of the BrainAGE preparation scripts:                            *)
(*   "base" = prepare_brainage.py                                          *)
(*   "csv"  = prepare_brainage_from_csv.py                                 *)
(*   "csv2" = prepare_brainage_from_csv2.py                                *)
(* Text (subject IDs, CSV cells, file names) is modelled as sequences of   *)
(* one-character strings, so that regular-expression matching, stripping,  *)
(* lower-casing, number parsing and lexicographic sorting are computed     *)
(* character by character, as Python computes them.                        *)
(* A Python value that may be None is modelled as a sequence of length at  *)
(* most one: None is <<>> and the value x is <<x>>.                        *)
(***************************************************************************)
EXTENDS Integers, Sequences, FiniteSets, TLC

VARIABLES
  sidTok,      \* SpecSid: the token handed to split_sid
  sidRes,      \* SpecSid: script -> what split_sid returned
  sidDone,     \* SpecSid: the scripts whose split_sid has been called
  script,      \* which script runs ("csv" or "csv2")
  viaMain,     \* whether the parser is entered through main's argument handling
  rows,        \* csv.reader's output: a sequence of rows, each a sequence of cells
  args,        \* parse_csv's column arguments (id_col .. sex_name)
  ppc,         \* the parser's position: "idle", "start", "loop", "finish", "returned", "raised"
  has_header,  \* parse_csv / parse_csv_german: has_header
  cols,        \* <<id_i, age_i, sex_i>>, each an optional 0-based index
  ri,          \* index in rows of the next data row of the parser's loop
  mapping,     \* the parser's dict: sid -> <<age, optional sex>>
  bad_rows,    \* bad_rows / skipped
  perr,        \* the exception that left the parser ("" when none)
  rowsDone,    \* how many data rows the loop has finished (skipped or stored)
  mpc,         \* main's position
  disk,        \* subject directory name -> state of its imaging input
  todo,        \* main's loop: the sorted wanted sids not yet visited
  relabel,     \* main: group -> (sid -> labels)
  stats,       \* main: group -> number of subjects copied
  errors,      \* main of script csv: the sids whose copy raised, in order
  log,         \* stdout: the sequence of printed messages
  outFiles,    \* the output root: the set of destination files <<group, dir, file name>>
  labelFiles,  \* the output root's labels/: file name -> sequence of lines
  run,         \* how many pipeline runs have started
  prev         \* what the previous run left: its label files, and whether this
               \* run's inputs are the same as that run's

sidVars == <<sidTok, sidRes, sidDone>>
parseVars == <<script, viaMain, rows, args, ppc, has_header, cols, ri, mapping,
               bad_rows, perr, rowsDone>>
mainVars == <<mpc, disk, todo, relabel, stats, errors, outFiles, labelFiles, run,
             prev>>
vars == <<sidVars, parseVars, mainVars, log>>

---------------------------------------------------------------------------
(* Characters *)

\* Printable ASCII in code-point order, from 32 (space): Python compares str
\* values code point by code point. The grave accent (96) cannot be written
\* in a string here; its place is held by a name no character equals.
ASCII ==
  <<
    " ", "!", "\"", "#", "$", "%", "&", "'", "(", ")", "*", "+", ",", "-",
    ".", "/", "0", "1", "2", "3", "4", "5", "6", "7", "8", "9", ":", ";",
    "<", "=", ">", "?", "@", "A", "B", "C", "D", "E", "F", "G", "H", "I",
    "J", "K", "L", "M", "N", "O", "P", "Q", "R", "S", "T", "U", "V", "W",
    "X", "Y", "Z", "[", "\\", "]", "^", "_", "(grave)", "a", "b", "c", "d", "e",
    "f", "g", "h", "i", "j", "k", "l", "m", "n", "o", "p", "q", "r", "s",
    "t", "u", "v", "w", "x", "y", "z", "{", "|", "}", "~"
  >>

AsciiIndex(c) == CHOOSE i \in 1..Len(ASCII) : ASCII[i] = c

\* ord(c), for a printable ASCII character
Ord(c) == 31 + AsciiIndex(c)

UpperChars == {ASCII[i] : i \in 34..59}
LowerChars == {ASCII[i] : i \in 66..91}
DigitChars == {ASCII[i] : i \in 17..26}

\* [A-Za-z]
IsAlpha(c) == c \in UpperChars \cup LowerChars

\* \d (ASCII digits; the inputs hold no other Unicode digit)
IsDigit(c) == c \in DigitChars

\* str.lower() on one character
LowerChar(c) == IF c \in UpperChars THEN ASCII[AsciiIndex(c) + 32] ELSE c

\* str.lower()
Lower(s) == [i \in 1..Len(s) |-> LowerChar(s[i])]

\* Digit value of a digit character
DigitVal(c) == AsciiIndex(c) - 17

\* The number of leading characters of s, from position from, that are letters
RECURSIVE AlphaRun(_, _)
AlphaRun(s, from) ==
  IF from <= Len(s) /\ IsAlpha(s[from]) THEN 1 + AlphaRun(s, from + 1) ELSE 0

\* The number of leading characters of s, from position from, that are digits
RECURSIVE DigitRun(_, _)
DigitRun(s, from) ==
  IF from <= Len(s) /\ IsDigit(s[from]) THEN 1 + DigitRun(s, from + 1) ELSE 0

\* Python's s1 < s2 on str: the first differing code point decides, and a
\* proper prefix is smaller.
RECURSIVE StrLess(_, _)
StrLess(s1, s2) ==
  IF s2 = <<>> THEN FALSE
  ELSE IF s1 = <<>> THEN TRUE
  ELSE IF s1[1] = s2[1] THEN StrLess(Tail(s1), Tail(s2))
  ELSE Ord(s1[1]) < Ord(s2[1])

\* sorted(S) for a set of distinct strings
RECURSIVE SortedStrs(_)
SortedStrs(S) ==
  IF S = {} THEN <<>>
  ELSE LET m == CHOOSE x \in S : \A y \in S \ {x} : StrLess(x, y)
       IN  <<m>> \o SortedStrs(S \ {m})

---------------------------------------------------------------------------
(* ID parsing *)

Scripts == {"base", "csv", "csv2"}

\* What follows the digits in each script's pattern:
\*   csv   ^([A-Za-z]+)(\d+)$            nothing
\*   csv2  ^([A-Za-z]+)(\d+[A-Za-z]?)$   at most one letter
\*   base  ^([A-Za-z]+)(\d+)             anything (the pattern has no $)
\* The letter and digit classes are disjoint, so the greedy match is the
\* longest run of each.
SidMatch(sc, s) ==
  LET a == AlphaRun(s, 1)
      d == DigitRun(s, a + 1)
      rest == SubSeq(s, a + d + 1, Len(s))
      shape == a >= 1 /\ d >= 1
      tailOk == CASE sc = "csv"  -> rest = <<>>
                  [] sc = "csv2" -> rest = <<>> \/ (Len(rest) = 1 /\ IsAlpha(rest[1]))
                  [] sc = "base" -> TRUE
      numLen == IF sc = "csv2" THEN d + Len(rest) ELSE d
  IN  IF shape /\ tailOk
      THEN [ok |-> TRUE, group |-> SubSeq(s, 1, a), number |-> SubSeq(s, a + 1, a + numLen)]
      ELSE [ok |-> FALSE, group |-> <<>>, number |-> <<>>]

\* SID_RE.match(s) of scripts csv and csv2
SID_RE(sc, s) == SidMatch(sc, s).ok

\* split_sid(sid): ok = FALSE stands for the ValueError
split_sid(sc, sid) == SidMatch(sc, sid)

---------------------------------------------------------------------------
(* SpecSid: split_sid of each script applied to a token *)

MaxTokLen == 4

SidAlphabet == {"D", "K", "a", "0", "1", "-"}

RECURSIVE SeqsUpTo(_, _)
SeqsUpTo(S, n) ==
  IF n = 0 THEN {<<>>}
  ELSE LET shorter == SeqsUpTo(S, n - 1)
       IN  shorter \cup {Append(t, c) : t \in shorter, c \in S}

NoResult == [ok |-> FALSE, group |-> <<>>, number |-> <<>>]

\* Before any run there is no previous run
NoPrev == [labels |-> <<>>, same |-> FALSE]

IdleParse ==
  /\ script = "csv" /\ viaMain = FALSE /\ rows = <<>> /\ args = <<>>
  /\ ppc = "idle" /\ has_header = FALSE /\ cols = <<>> /\ ri = 0
  /\ mapping = <<>> /\ bad_rows = 0 /\ perr = "" /\ rowsDone = 0

IdleMain ==
  /\ mpc = "idle" /\ disk = <<>> /\ todo = <<>> /\ relabel = <<>> /\ stats = <<>>
  /\ errors = <<>> /\ outFiles = {} /\ labelFiles = <<>> /\ run = 0
  /\ prev = NoPrev

IdleSid == sidTok = <<>> /\ sidRes = [sc \in Scripts |-> NoResult] /\ sidDone = {}

InitSid ==
  /\ sidTok \in SeqsUpTo(SidAlphabet, MaxTokLen) \ {<<>>}
  /\ sidRes = [sc \in Scripts |-> NoResult]
  /\ sidDone = {}
  /\ IdleParse /\ IdleMain /\ log = <<>>

CallSplitSid(sc) ==
  /\ sc \notin sidDone
  /\ sidRes' = [sidRes EXCEPT ![sc] = split_sid(sc, sidTok)]
  /\ sidDone' = sidDone \cup {sc}
  /\ UNCHANGED <<sidTok, parseVars, mainVars, log>>

NextSid == \E sc \in Scripts : CallSplitSid(sc)

SpecSid == InitSid /\ [][NextSid]_vars

\* The ID grammar as the specification words it: one or more letters, one or
\* more digits, then optionally a single letter.
GrammarValid(s) ==
  \E a \in 1..Len(s), d \in 1..Len(s) :
    /\ a + d <= Len(s) /\ a + d >= Len(s) - 1
    /\ \A i \in 1..a : IsAlpha(s[i])
    /\ \A i \in (a + 1)..(a + d) : IsDigit(s[i])
    /\ \A i \in (a + d + 1)..Len(s) : IsAlpha(s[i])

---------------------------------------------------------------------------
(* Python values and conversions used by the parsers *)

None == <<>>
Some(x) == <<x>>

\* bool(x) of an optional str: None and "" are falsy
TruthyStr(o) == o # None /\ o[1] # <<>>

\* bool(x) of an optional int: None and 0 are falsy
TruthyInt(o) == o # None /\ o[1] # 0

\* str.strip(): the cells hold no whitespace other than the space
RECURSIVE LStrip(_)
LStrip(s) == IF s # <<>> /\ s[1] = " " THEN LStrip(Tail(s)) ELSE s

RECURSIVE RStrip(_)
RStrip(s) ==
  IF s # <<>> /\ s[Len(s)] = " " THEN RStrip(SubSeq(s, 1, Len(s) - 1)) ELSE s

Strip(s) == RStrip(LStrip(s))

\* str.replace(",", ".")
ReplaceComma(s) == [i \in 1..Len(s) |-> IF s[i] = "," THEN "." ELSE s[i]]

\* cand in h
Contains(h, cand) ==
  \E i \in 0..(Len(h) - Len(cand)) : SubSeq(h, i + 1, i + Len(cand)) = cand

\* The value of a run of digits
RECURSIVE DigitsVal(_)
DigitsVal(ds) ==
  IF ds = <<>> THEN 0
  ELSE 10 * DigitsVal(SubSeq(ds, 1, Len(ds) - 1)) + DigitVal(ds[Len(ds)])

\* float(s) on a stripped cell, for the literals sign? digits [. digits*] and
\* sign? . digits (the cells hold no exponent, underscore, inf or nan, which
\* float also accepts). ok = FALSE stands for the ValueError. The value is
\* kept exactly: sign, integer part, fraction digits.
PyFloat(s) ==
  LET sg == IF s # <<>> /\ s[1] \in {"+", "-"} THEN 1 ELSE 0
      n1 == DigitRun(s, sg + 1)
      dot == IF sg + n1 + 1 <= Len(s) /\ s[sg + n1 + 1] = "." THEN 1 ELSE 0
      n2 == IF dot = 1 THEN DigitRun(s, sg + n1 + 2) ELSE 0
      good == (n1 + n2 >= 1) /\ (sg + n1 + dot + n2 = Len(s))
  IN  IF good
      THEN [ok |-> TRUE, neg |-> (sg = 1 /\ s[1] = "-"),
            ip |-> DigitsVal(SubSeq(s, sg + 1, sg + n1)),
            frac |-> SubSeq(s, sg + n1 + 2, sg + n1 + 1 + n2)]
      ELSE [ok |-> FALSE, neg |-> FALSE, ip |-> 0, frac |-> <<>>]

\* How the fraction compares with one half: -1 below, 0 equal, 1 above
FracVsHalf(frac) ==
  IF frac = <<>> THEN -1
  ELSE LET d == DigitVal(frac[1])
           restZero == \A i \in 2..Len(frac) : frac[i] = "0"
       IN  IF d > 5 THEN 1
           ELSE IF d < 5 THEN -1
           ELSE IF restZero THEN 0 ELSE 1

\* int(round(f)): Python 3 rounds a tie to the even neighbour
PyRoundInt(f) ==
  LET h == FracVsHalf(f.frac)
      up == h = 1 \/ (h = 0 /\ f.ip % 2 = 1)
      m == IF up THEN f.ip + 1 ELSE f.ip
  IN  IF f.neg THEN 0 - m ELSE m

\* int(f): truncation towards zero
PyTruncInt(f) == IF f.neg THEN 0 - f.ip ELSE f.ip

\* str(n) of an int
RECURSIVE NatToStr(_)
NatToStr(n) ==
  IF n < 10 THEN <<ASCII[17 + n]>>
  ELSE Append(NatToStr(n \div 10), ASCII[17 + (n % 10)])

IntToStr(n) == IF n < 0 THEN <<"-">> \o NatToStr(0 - n) ELSE NatToStr(n)

\* dict item assignment d[k] = v
DictSet(d, k, v) ==
  [x \in (DOMAIN d) \cup {k} |-> IF x = k THEN v ELSE d[x]]

EmptyDict == <<>>

\* print(...): one message on stdout
Msg(kind, n, ids) == [kind |-> kind, n |-> n, ids |-> ids]

---------------------------------------------------------------------------
(* The label parsers: parse_csv (script csv), parse_csv_german (script csv2) *)

\* parse_csv's sex_map, as (key, value) pairs
sex_map ==
  { <<<<"0">>, 0>>, <<<<"1">>, 1>>,
    <<<<"m">>, 1>>, <<<<"m", "a", "l", "e">>, 1>>, <<<<"m", "a", "n", "n">>, 1>>, <<<<"m", "ä", "n", "n", "l", "i", "c", "h">>, 1>>,
    <<<<"f">>, 0>>, <<<<"w">>, 0>>, <<<<"f", "e", "m", "a", "l", "e">>, 0>>, <<<<"f", "r", "a", "u">>, 0>>, <<<<"w", "e", "i", "b", "l", "i", "c", "h">>, 0>> }

\* parse_csv_german's two sets of sex words
GermanMaleWords == {<<"1">>, <<"m">>, <<"m", "a", "l", "e">>, <<"m", "a", "n", "n">>, <<"m", "ä", "n", "n", "l", "i", "c", "h">>}
GermanFemaleWords == {<<"0">>, <<"2">>, <<"f">>, <<"f", "e", "m", "a", "l", "e">>, <<"f", "r", "a", "u">>, <<"w", "e", "i", "b", "l", "i", "c", "h">>}

\* parse_csv, lines 152-169: the sex cell to an optional 0/1 (None: the row
\* is skipped)
CsvSex(cell) ==
  LET sex_raw == Lower(Strip(cell))
      hit == {kv \in sex_map : kv[1] = sex_raw}
      f == PyFloat(sex_raw)
  IN  IF hit # {} THEN Some((CHOOSE kv \in hit : TRUE)[2])
      ELSE IF f.ok /\ PyTruncInt(f) \in {0, 1} THEN Some(PyTruncInt(f))
      ELSE None

\* parse_csv_german, lines 123-137: the sex cell to male, which stays None
\* when nothing matches
GermanSex(cell) ==
  LET sx == Lower(Strip(cell))
      f == PyFloat(sx)
  IN  IF sx \in GermanMaleWords THEN Some(1)
      ELSE IF sx \in GermanFemaleWords THEN Some(0)
      ELSE IF f.ok /\ PyTruncInt(f) = 1 THEN Some(1)
      ELSE IF f.ok /\ PyTruncInt(f) = 2 THEN Some(0)
      ELSE None

\* parse_csv, lines 144-150: the age cell to an optional int (None: skipped)
CsvAge(cell) ==
  LET f == PyFloat(Strip(cell))
  IN  IF f.ok THEN Some(PyRoundInt(f)) ELSE None

\* parse_csv_german, lines 116-117: the age cell to an optional int (None:
\* float raised ValueError, which nothing catches)
GermanAge(cell) ==
  LET f == PyFloat(ReplaceComma(Strip(cell)))
  IN  IF f.ok THEN Some(PyRoundInt(f)) ELSE None

\* parse_csv, line 109
CsvHasHeader(header) == \E i \in 1..Len(header) : ~SID_RE("csv", header[i])

\* idx_from_name: the 0-based index of the first header cell equal to name,
\* both stripped and lower-cased; None stands for the ValueError
idx_from_name(header, name) ==
  LET target == Lower(Strip(name))
      hits == {i \in 1..Len(header) : Lower(Strip(header[i])) = target}
  IN  IF hits = {} THEN None
      ELSE Some((CHOOSE i \in hits : \A j \in hits : i <= j) - 1)

\* _find_col: the 0-based index of the first header cell that contains one of
\* the candidates; None stands for the ValueError
find_col(header, candidates) ==
  LET hits == {i \in 1..Len(header) :
                 \E cand \in candidates : Contains(Lower(Strip(header[i])), cand)}
  IN  IF hits = {} THEN None
      ELSE Some((CHOOSE i \in hits : \A j \in hits : i <= j) - 1)

\* main of script csv, lines 224-230: column indices are dropped when any
\* column name is given
MainArgs(a) ==
  IF TruthyStr(a.id_name) \/ TruthyStr(a.age_name) \/ TruthyStr(a.sex_name)
  THEN [a EXCEPT !.id_col = None, !.age_col = None, !.sex_col = None]
  ELSE a

\* The arguments parse_csv is entered with
EffArgs == IF viaMain THEN MainArgs(args) ELSE args

\* parse_csv, lines 118-128: column resolution. err # "" stands for the
\* ValueError raised; cols are optional 0-based indices.
CsvResolve(a, header, hasHeader) ==
  LET one(name, col) ==
        IF TruthyStr(name) THEN idx_from_name(header, name[1])
        ELSE IF TruthyInt(col) THEN Some(col[1] - 1) ELSE None
      notFound(name) == TruthyStr(name) /\ idx_from_name(header, name[1]) = None
  IN  IF TruthyStr(a.id_name) \/ TruthyStr(a.age_name) \/ TruthyStr(a.sex_name)
      THEN IF ~hasHeader
           THEN [err |-> "NoHeaderRow", cols |-> <<>>]
           ELSE IF notFound(a.id_name) \/ notFound(a.age_name) \/ notFound(a.sex_name)
           THEN [err |-> "ColumnNotFound", cols |-> <<>>]
           ELSE [err |-> "",
                 cols |-> <<one(a.id_name, a.id_col), one(a.age_name, a.age_col),
                            one(a.sex_name, a.sex_col)>>]
      ELSE IF a.id_col = None \/ a.age_col = None \/ a.sex_col = None
           THEN [err |-> "NamesOrIndices", cols |-> <<>>]
           ELSE [err |-> "",
                 cols |-> <<Some(a.id_col[1] - 1), Some(a.age_col[1] - 1),
                            Some(a.sex_col[1] - 1)>>]

\* parse_csv_german, lines 100-102
GermanResolve(header) ==
  LET c == <<find_col(header, {<<"c", "o", "d", "e">>}), find_col(header, {<<"a", "l", "t", "e", "r">>, <<"a", "g", "e">>}),
             find_col(header, {<<"g", "e", "s", "c", "h", "l", "e", "c", "h", "t">>, <<"s", "e", "x">>})>>
  IN  IF c[1] = None \/ c[2] = None \/ c[3] = None
      THEN [err |-> "ColumnNotFound", cols |-> <<>>]
      ELSE [err |-> "", cols |-> c]

Max3(x, y, z) ==
  IF x >= y /\ x >= z THEN x ELSE IF y >= z THEN y ELSE z

\* One pass of parse_csv's loop body (lines 135-171) over row r:
\*   act = "raise": an exception leaves the parser (max() over a None index)
\*   act = "bad":   bad_rows += 1; continue
\*   act = "store": mapping[sid] = (age, sex)
CsvRow(r, c) ==
  LET out(act, err, sid, val) == [act |-> act, err |-> err, sid |-> sid, val |-> val]
  IN  IF c[1] = None \/ c[2] = None \/ c[3] = None
      THEN out("raise", "TypeError", <<>>, <<>>)
      ELSE IF Max3(c[1][1], c[2][1], c[3][1]) >= Len(r)
      THEN out("bad", "", <<>>, <<>>)
      ELSE LET sid == Strip(r[c[1][1] + 1])
               age == CsvAge(r[c[2][1] + 1])
               sex == CsvSex(r[c[3][1] + 1])
           IN  IF ~SID_RE("csv", sid) THEN out("bad", "", <<>>, <<>>)
               ELSE IF age = None THEN out("bad", "", <<>>, <<>>)
               ELSE IF sex = None THEN out("bad", "", <<>>, <<>>)
               ELSE out("store", "", sid, <<age[1], sex>>)

\* One pass of parse_csv_german's loop body (lines 108-141) over row r:
\*   act = "raise": IndexError (a cell is missing) or ValueError (float)
\*   act = "skip":  continue, counting nothing
\*   act = "store": out[sid] = (age, male), male possibly None
GermanRow(r, c) ==
  LET out(act, err, sid, val) == [act |-> act, err |-> err, sid |-> sid, val |-> val]
  IN  IF c[1][1] >= Len(r) THEN out("raise", "IndexError", <<>>, <<>>)
      ELSE LET sid == Strip(r[c[1][1] + 1])
           IN  IF ~SID_RE("csv2", sid) THEN out("skip", "", <<>>, <<>>)
               ELSE IF c[2][1] >= Len(r) THEN out("raise", "IndexError", <<>>, <<>>)
               ELSE LET age == GermanAge(r[c[2][1] + 1])
                    IN  IF age = None THEN out("raise", "ValueError", <<>>, <<>>)
                        ELSE IF c[3][1] >= Len(r)
                        THEN out("raise", "IndexError", <<>>, <<>>)
                        ELSE out("store", "", sid,
                                 <<age[1], GermanSex(r[c[3][1] + 1])>>)

\* The loop body of the running script's parser
ParserRow(r, c) == IF script = "csv" THEN CsvRow(r, c) ELSE GermanRow(r, c)

\* Lines 105-130 of parse_csv, 95-104 of parse_csv_german: the empty-file
\* check, header detection and column resolution
ParseStart ==
  /\ ppc = "start"
  /\ IF rows = <<>>
     THEN /\ ppc' = "raised" /\ perr' = "EmptyCsv"
          /\ UNCHANGED <<has_header, cols, ri>>
     ELSE LET header == rows[1]
              hh == IF script = "csv" THEN CsvHasHeader(header) ELSE TRUE
              res == IF script = "csv" THEN CsvResolve(EffArgs, header, hh)
                     ELSE GermanResolve(header)
          IN  /\ has_header' = hh
              /\ IF res.err # ""
                 THEN /\ ppc' = "raised" /\ perr' = res.err
                      /\ UNCHANGED <<cols, ri>>
                 ELSE /\ ppc' = "loop" /\ cols' = res.cols
                      /\ ri' = IF hh THEN 2 ELSE 1
                      /\ UNCHANGED perr
  /\ UNCHANGED <<script, viaMain, rows, args, mapping, bad_rows, rowsDone>>
  /\ UNCHANGED <<sidVars, mainVars, log>>

\* One iteration of the parser's loop over the data rows
ParseRow ==
  /\ ppc = "loop" /\ ri <= Len(rows)
  /\ LET o == ParserRow(rows[ri], cols)
     IN  CASE o.act = "raise" ->
                /\ ppc' = "raised" /\ perr' = o.err
                /\ UNCHANGED <<ri, mapping, bad_rows, rowsDone>>
           [] o.act = "bad" ->
                /\ bad_rows' = bad_rows + 1 /\ ri' = ri + 1 /\ rowsDone' = rowsDone + 1
                /\ UNCHANGED <<ppc, perr, mapping>>
           [] o.act = "skip" ->
                /\ ri' = ri + 1 /\ rowsDone' = rowsDone + 1
                /\ UNCHANGED <<ppc, perr, mapping, bad_rows>>
           [] o.act = "store" ->
                /\ mapping' = DictSet(mapping, o.sid, o.val)
                /\ ri' = ri + 1 /\ rowsDone' = rowsDone + 1
                /\ UNCHANGED <<ppc, perr, bad_rows>>
  /\ UNCHANGED <<script, viaMain, rows, args, has_header, cols>>
  /\ UNCHANGED <<sidVars, mainVars, log>>

\* After the loop (lines 173-178 of parse_csv, 143-147 of parse_csv_german):
\* an empty mapping raises, a positive skip count is printed as a warning
ParseFinish ==
  /\ ppc = "loop" /\ ri > Len(rows)
  /\ IF DOMAIN mapping = {}
     THEN /\ ppc' = "raised" /\ perr' = "NoUsableRows" /\ log' = log
     ELSE /\ ppc' = "returned" /\ perr' = perr
          /\ log' = IF bad_rows > 0
                    THEN Append(log, Msg("warn_skipped", bad_rows, <<>>))
                    ELSE log
  /\ UNCHANGED <<script, viaMain, rows, args, has_header, cols, ri, mapping,
                 bad_rows, rowsDone>>
  /\ UNCHANGED <<sidVars, mainVars>>

---------------------------------------------------------------------------
(* SpecParse: one invocation of a label parser on a bounded table *)

MaxParseRows == 3

HeaderGerman == <<<<"C", "o", "d", "e">>, <<"A", "l", "t", "e", "r">>, <<"G", "e", "s", "c", "h", "l", "e", "c", "h", "t", " ", "(", "1", "=", "m", ",", " ", "2", "=", "f", ")">>>>
HeaderPlain == <<<<"C", "o", "d", "e">>, <<"A", "l", "t", "e", "r">>, <<"S", "e", "x">>>>

\* The rows a table is built from: two header rows, a row whose every cell is
\* a subject ID, and data rows with good and bad cells
ParseRowPool ==
  { HeaderGerman,
    HeaderPlain,
    <<<<"D", "0", "1">>, <<"D", "0", "2">>, <<"K", "1">>>>,
    <<<<"D", "0", "1">>, <<"7", "6", ",", "5">>, <<"1">>>>,
    <<<<"D", "0", "1">>, <<"7", "6", ".", "5">>, <<"1">>>>,
    <<<<"K", "1">>, <<"7", "7", ".", "5">>, <<"2">>>>,
    <<<<"K", "1", "1", "a">>, <<"6", "4">>, <<"W">>>>,
    <<<<"D", "0", "2">>, <<"7", "0">>, <<"u", "n", "k", "n", "o", "w", "n">>>>,
    <<<<"K", "1">>, <<"N", "A">>, <<"m">>>>,
    <<<<"D", "0", "1">>, <<"7", "6">>>>,
    <<<<"x">>, <<>>, <<>>>>,
    <<<<" ", "K", "1", "0", " ">>, <<" ", "8", "0", " ">>, <<"0">>>>,
    <<<<"D", "0", "2">>, <<"8", "1">>, <<>>>>,
    <<<<"D", "0", "2">>, <<"6", "6">>, <<"3">>>> }

ArgRec(ic, ac, sc, iname, aname, sname) ==
  [id_col |-> ic, age_col |-> ac, sex_col |-> sc,
   id_name |-> iname, age_name |-> aname, sex_name |-> sname]

\* Index mode, the three columns in order
ArgsIndex == ArgRec(Some(1), Some(2), Some(3), None, None, None)

\* The argument combinations parse_csv is called with
ParseArgPool ==
  { ArgsIndex,
    ArgRec(None, None, None, Some(<<"c", "o", "d", "e">>), Some(<<"a", "l", "t", "e", "r">>), Some(<<"s", "e", "x">>)),
    ArgRec(Some(1), Some(2), Some(3), Some(<<"c", "o", "d", "e">>), Some(<<"a", "l", "t", "e", "r">>), Some(<<"s", "e", "x">>)),
    ArgRec(None, Some(2), Some(3), Some(<<"c", "o", "d", "e">>), None, None),
    ArgRec(None, None, None, Some(<<"c", "o", "d", "e">>), None, None),
    ArgRec(Some(1), None, Some(3), None, None, None),
    ArgRec(None, None, None, Some(<<"s", "u", "b", "j", "e", "c", "t">>), Some(<<"a", "l", "t", "e", "r">>), Some(<<"s", "e", "x">>)) }

InitParse ==
  /\ script \in {"csv", "csv2"}
  /\ rows \in SeqsUpTo(ParseRowPool, MaxParseRows)
  /\ IF script = "csv"
     THEN args \in ParseArgPool /\ viaMain \in BOOLEAN
     ELSE args = ArgsIndex /\ viaMain = FALSE
  /\ ppc = "start" /\ has_header = FALSE /\ cols = <<>> /\ ri = 0
  /\ mapping = EmptyDict /\ bad_rows = 0 /\ perr = "" /\ rowsDone = 0
  /\ IdleSid /\ IdleMain /\ log = <<>>

NextParse == ParseStart \/ ParseRow \/ ParseFinish

SpecParse == InitParse /\ [][NextParse]_vars

---------------------------------------------------------------------------
(* The pipeline: main of scripts csv and csv2 *)

\* The imaging input of a subject directory:
\*   "absent" no such directory     "ok"    mri/ holds mwp1 and mwp2
\*   "nomri"  no mri/ directory     "nomwp" mri/ lacks mwp1 or mwp2
DirStates == {"absent", "ok", "nomri", "nomwp"}

\* find_subject_dirs over T1_CAT12 and T1_CAT12_Kontrollen, as the keys of
\* sid_to_dir: the directories present whose name matches SID_RE
find_subject_dirs(sc, d) ==
  {n \in DOMAIN d : d[n] # "absent" /\ SID_RE(sc, n)}

\* A reconciliation that forgets to test for the directory
MissingIgnoringDisk(wanted, dirs) == wanted

\* main, line 242 (csv) / 187 (csv2): the wanted sids with no directory
missing_on_disk(wanted, dirs) == wanted \ dirs

\* How many missing sids the warning lists: [:10] in csv, [:12] in csv2
PreviewCapCsv == 10
PreviewCapCsv2 == 12
PreviewCap(sc) == IF sc = "csv" THEN PreviewCapCsv ELSE PreviewCapCsv2

\* xs[:n]
Take(xs, n) == SubSeq(xs, 1, IF Len(xs) < n THEN Len(xs) ELSE n)

\* f"rp1_{sid}_T1.nii" / f"rp2_{sid}_T1.nii"
DstName(prefix, sid) == prefix \o <<"_">> \o sid \o <<"_", "T", "1", ".", "n", "i", "i">>

\* A copy that does not look at the imaging input
CopyIgnoringInput(sc, sid, state) ==
  LET m == split_sid(sc, sid)
  IN  IF m.ok
      THEN [ok |-> TRUE, group |-> m.group,
            files |-> {[group |-> m.group, dir |-> "rp1", name |-> DstName(<<"r", "p", "1">>, sid)],
                       [group |-> m.group, dir |-> "rp2", name |-> DstName(<<"r", "p", "2">>, sid)]}]
      ELSE [ok |-> FALSE, group |-> <<>>, files |-> {}]

\* copy_seg_for_sid: the two destination files of a subject whose imaging
\* input is complete; ok = FALSE stands for the exception raised (split_sid's
\* ValueError, or FileNotFoundError before anything is copied)
copy_seg_for_sid(sc, sid, state) ==
  LET m == split_sid(sc, sid)
  IN  IF m.ok /\ state = "ok"
      THEN [ok |-> TRUE, group |-> m.group,
            files |-> {[group |-> m.group, dir |-> "rp1", name |-> DstName(<<"r", "p", "1">>, sid)],
                       [group |-> m.group, dir |-> "rp2", name |-> DstName(<<"r", "p", "2">>, sid)]}]
      ELSE [ok |-> FALSE, group |-> <<>>, files |-> {}]

\* str(x) of an optional int
PyStr(o) == IF o = None THEN <<"N", "o", "n", "e">> ELSE IntToStr(o[1])

\* Label lines whose ages are listed in the opposite order to the subjects
LabelLinesAgesReversed(sid_map) ==
  LET sids_sorted == SortedStrs(DOMAIN sid_map)
      n == Len(sids_sorted)
  IN  [subjects |-> sids_sorted,
       age |-> [i \in 1..n |-> IntToStr(sid_map[sids_sorted[n + 1 - i]][1])],
       male |-> [i \in 1..n |-> PyStr(sid_map[sids_sorted[i]][2])]]

\* write_group_labels, per group: the lines of subjects_G, age_G and male_G
\* in the order of sorted(sid_map.keys())
LabelLines(sid_map) ==
  LET sids_sorted == SortedStrs(DOMAIN sid_map)
  IN  [subjects |-> sids_sorted,
       age |-> [i \in 1..Len(sids_sorted) |-> IntToStr(sid_map[sids_sorted[i]][1])],
       male |-> [i \in 1..Len(sids_sorted) |-> PyStr(sid_map[sids_sorted[i]][2])]]

\* A label writer that opens the files for appending
WriteLabelsAppending(files, rl) ==
  LET groups == {g \in DOMAIN rl : DOMAIN rl[g] # {}}
      written == {<<kind, g>> : kind \in {"subjects", "age", "male"}, g \in groups}
  IN  [f \in (DOMAIN files) \cup written |->
         IF f \in written
         THEN LET ll == LabelLines(rl[f[2]])
                  old == IF f \in DOMAIN files THEN files[f] ELSE <<>>
              IN  old \o (CASE f[1] = "subjects" -> ll.subjects
                            [] f[1] = "age" -> ll.age
                            [] f[1] = "male" -> ll.male)
         ELSE files[f]]

\* write_group_labels: labels/ after the call. A file is its sequence of
\* lines (write_text joins them with "\n" and ends with "\n"); a group whose
\* sid_map is empty is passed over, and files of other groups are left alone.
write_group_labels(files, rl) ==
  LET groups == {g \in DOMAIN rl : DOMAIN rl[g] # {}}
      written == {<<kind, g>> : kind \in {"subjects", "age", "male"}, g \in groups}
  IN  [f \in (DOMAIN files) \cup written |->
         IF f \in written
         THEN LET ll == LabelLines(rl[f[2]])
              IN  CASE f[1] = "subjects" -> ll.subjects
                    [] f[1] = "age" -> ll.age
                    [] f[1] = "male" -> ll.male
         ELSE files[f]]

\* One message per element of xs, in order, with the count cnt gives it
MsgEach(kind, xs, cnt) ==
  [i \in 1..Len(xs) |-> Msg(kind, cnt[xs[i]], <<xs[i]>>)]

\* main, lines 218-232 (csv) / 173-178 (csv2): a run starts and calls the
\* parser
MainBegin ==
  /\ mpc = "begin"
  /\ mpc' = "parsing" /\ run' = run + 1
  /\ ppc' = "start"
  /\ UNCHANGED <<script, viaMain, rows, args, has_header, cols, ri, mapping,
                 bad_rows, perr, rowsDone>>
  /\ UNCHANGED <<disk, todo, relabel, stats, errors, outFiles, labelFiles, prev>>
  /\ UNCHANGED <<sidVars, log>>

\* The parser's exception is not caught: the run ends with a traceback
MainParseFailed ==
  /\ mpc = "parsing" /\ ppc = "raised"
  /\ mpc' = "aborted"
  /\ UNCHANGED <<disk, todo, relabel, stats, errors, outFiles, labelFiles, run, prev>>
  /\ UNCHANGED <<sidVars, parseVars, log>>

\* main, lines 233-248 (csv) / 179-193 (csv2): the wanted sids, the
\* directories found, and the warning about sids with no directory
MainReconcile ==
  /\ mpc = "parsing" /\ ppc = "returned"
  /\ LET wanted == DOMAIN mapping
         dirs == find_subject_dirs(script, disk)
         missing == SortedStrs(missing_on_disk(wanted, dirs))
     IN  /\ log' = log \o <<Msg("info_csv", Cardinality(wanted), <<>>)>>
                       \o (IF missing # <<>>
                           THEN <<Msg("warn_missing", Len(missing),
                                      Take(missing, PreviewCap(script)))>>
                           ELSE <<>>)
         /\ todo' = SortedStrs(wanted)
  /\ stats' = EmptyDict /\ relabel' = EmptyDict /\ errors' = <<>>
  /\ mpc' = "copy"
  /\ UNCHANGED <<disk, outFiles, labelFiles, run, prev>>
  /\ UNCHANGED <<sidVars, parseVars>>

\* One iteration of main's loop, lines 251-262 (csv) / 195-204 (csv2)
MainCopy ==
  /\ mpc = "copy" /\ todo # <<>>
  /\ LET sid == Head(todo)
         dirs == find_subject_dirs(script, disk)
     IN  IF sid \notin dirs
         THEN UNCHANGED <<stats, relabel, errors, outFiles, log>>
         ELSE LET c == copy_seg_for_sid(script, sid, disk[sid])
              IN  IF c.ok
                  THEN /\ outFiles' = outFiles \cup c.files
                       /\ stats' = DictSet(stats, c.group,
                                     (IF c.group \in DOMAIN stats
                                      THEN stats[c.group] ELSE 0) + 1)
                       /\ relabel' = DictSet(relabel, c.group,
                                       DictSet(IF c.group \in DOMAIN relabel
                                               THEN relabel[c.group] ELSE EmptyDict,
                                               sid, mapping[sid]))
                       /\ log' = Append(log, Msg("copy", 0, <<sid>>))
                       /\ UNCHANGED errors
                  ELSE /\ errors' = IF script = "csv" THEN Append(errors, sid) ELSE errors
                       /\ log' = Append(log, Msg("error", 0, <<sid>>))
                       /\ UNCHANGED <<stats, relabel, outFiles>>
  /\ todo' = Tail(todo)
  /\ UNCHANGED <<mpc, disk, labelFiles, run, prev>>
  /\ UNCHANGED <<sidVars, parseVars>>

\* main, line 265 (csv) / 206 (csv2): write_group_labels(out_root, relabel)
MainWriteLabels ==
  /\ mpc = "copy" /\ todo = <<>>
  /\ labelFiles' = write_group_labels(labelFiles, relabel)
  /\ LET groups == SortedStrs({g \in DOMAIN relabel : DOMAIN relabel[g] # {}})
         n == [g \in DOMAIN relabel |-> Cardinality(DOMAIN relabel[g])]
     IN  log' = log \o MsgEach("labels", groups, n)
  /\ mpc' = "summary"
  /\ UNCHANGED <<disk, todo, relabel, stats, errors, outFiles, run, prev>>
  /\ UNCHANGED <<sidVars, parseVars>>

\* main, lines 267-273 (csv) / 208-210 (csv2): the summary; script csv also
\* lists the errors
MainSummary ==
  /\ mpc = "summary"
  /\ LET errs == [i \in 1..Len(errors) |-> Msg("summary_error", 0, <<errors[i]>>)]
     IN  log' = log \o MsgEach("summary_group", SortedStrs(DOMAIN stats), stats)
                    \o (IF script = "csv"
                        THEN errs ELSE <<>>)
  /\ mpc' = "done"
  /\ UNCHANGED <<disk, todo, relabel, stats, errors, outFiles, labelFiles, run, prev>>
  /\ UNCHANGED <<sidVars, parseVars>>

---------------------------------------------------------------------------
(* Spec: one pipeline run into an empty output root *)

MaxRows == 2

\* The subject directory names of the input roots
DirPool == {<<"D", "0", "1">>, <<"K", "1">>, <<"K", "1", "0">>, <<"K", "1", "1", "a">>}

\* The data rows of the label source
PipeRowPool ==
  { <<<<"D", "0", "1">>, <<"7", "6">>, <<"1">>>>,
    <<<<"D", "0", "2">>, <<"7", "0">>, <<"2">>>>,
    <<<<"K", "1">>, <<"8", "1">>, <<"f">>>>,
    <<<<"K", "1", "0">>, <<"6", "4">>, <<"1">>>>,
    <<<<"K", "1", "1", "a">>, <<"5", "9">>, <<"m">>>> }

Init ==
  /\ script \in {"csv", "csv2"}
  /\ viaMain = TRUE /\ args = ArgsIndex
  /\ \E data \in SeqsUpTo(PipeRowPool, MaxRows) : rows = <<HeaderGerman>> \o data
  /\ disk \in [DirPool -> DirStates]
  /\ ppc = "idle" /\ has_header = FALSE /\ cols = <<>> /\ ri = 0
  /\ mapping = EmptyDict /\ bad_rows = 0 /\ perr = "" /\ rowsDone = 0
  /\ mpc = "begin" /\ todo = <<>> /\ relabel = EmptyDict /\ stats = EmptyDict
  /\ errors = <<>> /\ outFiles = {} /\ labelFiles = EmptyDict /\ run = 0
  /\ prev = NoPrev
  /\ IdleSid /\ log = <<>>

Next ==
  \/ MainBegin
  \/ ParseStart
  \/ ParseRow
  \/ ParseFinish
  \/ MainParseFailed
  \/ MainReconcile
  \/ MainCopy
  \/ MainWriteLabels
  \/ MainSummary

Spec == Init /\ [][Next]_vars

---------------------------------------------------------------------------
(* SpecRuns: successive pipeline runs into one output root *)

MaxRuns == 2

\* The subject directory names of the input roots
RunsDirPool == {<<"K", "1">>, <<"K", "1", "0">>}

\* The data rows of the label source
RunsRowPool ==
  { <<<<"K", "1">>, <<"8", "1">>, <<"f">>>>,
    <<<<"K", "1", "0">>, <<"6", "4">>, <<"1">>>>,
    <<<<"K", "1">>, <<"7", "9">>, <<"m">>>> }

\* What may happen to the inputs between two runs: the label source stays,
\* loses its last data row or gains a row, and the subject directories stay
\* or one of them changes
RowsEdits(rs) ==
  {rs} \cup (IF Len(rs) > 1 THEN {SubSeq(rs, 1, Len(rs) - 1)} ELSE {})
       \cup (IF Len(rs) - 1 < MaxRows THEN {Append(rs, r) : r \in RunsRowPool} ELSE {})
DiskEdits(d) == {d} \cup {[d EXCEPT ![n] = st] : n \in DOMAIN d, st \in DirStates}

InitRuns ==
  /\ script \in {"csv", "csv2"}
  /\ viaMain = TRUE /\ args = ArgsIndex
  /\ \E data \in SeqsUpTo(RunsRowPool, MaxRows) : rows = <<HeaderGerman>> \o data
  /\ disk \in [RunsDirPool -> DirStates]
  /\ ppc = "idle" /\ has_header = FALSE /\ cols = <<>> /\ ri = 0
  /\ mapping = EmptyDict /\ bad_rows = 0 /\ perr = "" /\ rowsDone = 0
  /\ mpc = "begin" /\ todo = <<>> /\ relabel = EmptyDict /\ stats = EmptyDict
  /\ errors = <<>> /\ outFiles = {} /\ labelFiles = EmptyDict /\ run = 0
  /\ prev = NoPrev
  /\ IdleSid /\ log = <<>>

\* The script is started again with the same output root: a new process,
\* whose only inheritance is what the output root holds
NextRun ==
  /\ mpc \in {"done", "aborted"} /\ run < MaxRuns
  /\ \E rs \in RowsEdits(rows), d \in DiskEdits(disk) :
       /\ rows' = rs /\ disk' = d
       /\ prev' = [labels |-> labelFiles, same |-> (rs = rows /\ d = disk)]
  /\ mpc' = "begin" /\ ppc' = "idle"
  /\ has_header' = FALSE /\ cols' = <<>> /\ ri' = 0
  /\ mapping' = EmptyDict /\ bad_rows' = 0 /\ perr' = "" /\ rowsDone' = 0
  /\ todo' = <<>> /\ relabel' = EmptyDict /\ stats' = EmptyDict /\ errors' = <<>>
  /\ log' = <<>>
  /\ UNCHANGED <<script, viaMain, args, outFiles, labelFiles, run>>
  /\ UNCHANGED sidVars

NextRuns ==
  \/ MainBegin
  \/ ParseStart
  \/ ParseRow
  \/ ParseFinish
  \/ MainParseFailed
  \/ MainReconcile
  \/ MainCopy
  \/ MainWriteLabels
  \/ MainSummary
  \/ NextRun

SpecRuns == InitRuns /\ [][NextRuns]_vars

---------------------------------------------------------------------------
(* What the specification says of a row, stated without the parsers' code *)

\* A decimal number written with a decimal point or a decimal comma:
\* digits, then optionally a separator and digits
SpecNumber(cell) ==
  LET s == Strip(cell)
      n1 == DigitRun(s, 1)
      sep == IF n1 + 1 <= Len(s) /\ s[n1 + 1] \in {".", ","} THEN 1 ELSE 0
      n2 == IF sep = 1 THEN DigitRun(s, n1 + 2) ELSE 0
  IN  [ok |-> n1 >= 1 /\ (sep = 1 => n2 >= 1) /\ n1 + sep + n2 = Len(s),
       ip |-> DigitsVal(SubSeq(s, 1, n1)),
       frac |-> SubSeq(s, n1 + 2, n1 + 1 + n2)]

\* Rounding to the nearest integer, a half going up (76.5 gives 77)
SpecRound(n) ==
  IF n.frac # <<>> /\ DigitVal(n.frac[1]) >= 5 THEN n.ip + 1 ELSE n.ip

\* The words of the synonym table that both parsers list
SpecMaleWords == {<<"m">>, <<"m", "a", "l", "e">>, <<"m", "a", "n", "n">>, <<"m", "ä", "n", "n", "l", "i", "c", "h">>}
SpecFemaleWords == {<<"f">>, <<"f", "e", "m", "a", "l", "e">>, <<"f", "r", "a", "u">>, <<"w", "e", "i", "b", "l", "i", "c", "h">>}

\* The numeric codes of a script's convention: A (script csv) 0 = female,
\* 1 = male; B (script csv2) 1 = male, 2 = female
ConventionCodes(sc) ==
  IF sc = "csv" THEN {<<<<"0">>, 0>>, <<<<"1">>, 1>>} ELSE {<<<<"1">>, 1>>, <<<<"2">>, 0>>}

\* The sex a cell stands for under a script's convention (None: the cell is
\* not in the table)
SpecSex(sc, cell) ==
  LET s == Lower(Strip(cell))
      codes == {kv \in ConventionCodes(sc) : kv[1] = s}
  IN  IF s \in SpecMaleWords THEN Some(1)
      ELSE IF s \in SpecFemaleWords THEN Some(0)
      ELSE IF codes # {} THEN Some((CHOOSE kv \in codes : TRUE)[2])
      ELSE None

\* A sex cell that is a numeric code: digits only
IsNumericCode(cell) ==
  LET s == Strip(cell) IN s # <<>> /\ DigitRun(s, 1) = Len(s)

\* Letters then digits, no trailing letter: an ID every script's grammar takes
PlainId(s) == GrammarValid(s) /\ IsDigit(s[Len(s)])

\* The tables of SpecParse whose columns are id, age, sex in this order
ColumnsInOrder == cols = <<Some(0), Some(1), Some(2)>>

\* Index in rows of the first data row of the parser's loop
FirstData == IF has_header THEN 2 ELSE 1

\* The data rows the loop has finished
Processed == {k \in FirstData..Len(rows) : k < ri}

\* Row k is the last finished row that carries its identifier
LastOfItsId(k) ==
  \A j \in Processed :
    (j > k /\ Len(rows[j]) >= 1) => Strip(rows[j][1]) # Strip(rows[k][1])

\* A row with all three cells, a plain ID, a numeric age and a sex cell of
\* the synonym table
GoodRow(sc, r) ==
  /\ Len(r) >= 3
  /\ PlainId(Strip(r[1]))
  /\ SpecNumber(r[2]).ok
  /\ SpecSex(sc, r[3]) # None

\* A row the parser is to skip and count: too short, a non-numeric age cell,
\* or an unresolvable sex cell
DefectRow(sc, r) ==
  \/ Len(r) < 3
  \/ ~SpecNumber(r[2]).ok
  \/ SpecSex(sc, r[3]) = None

ConfigErrors == {"EmptyCsv", "NoHeaderRow", "ColumnNotFound", "NamesOrIndices"}

\* Column names and positional indices mixed, or names for only some columns
MixedColumnSpec(a) ==
  LET names == {n \in {a.id_name, a.age_name, a.sex_name} : TruthyStr(n)}
      someName == names # {}
      allNames == TruthyStr(a.id_name) /\ TruthyStr(a.age_name) /\ TruthyStr(a.sex_name)
      someIndex == a.id_col # None \/ a.age_col # None \/ a.sex_col # None
  IN  someName /\ (someIndex \/ ~allNames)

---------------------------------------------------------------------------
(* What the specification says of a run, stated over its inputs and outputs *)

\* The label IDs and the discovered directory IDs of the run
LabelIds == DOMAIN mapping
DirIds == {n \in DOMAIN disk : disk[n] # "absent" /\ SID_RE(script, n)}
Resolved == LabelIds \cap DirIds
LabelOnly == LabelIds \ DirIds
DiskOnly == DirIds \ LabelIds

\* The IDs a message names
MsgIds(m) == {m.ids[i] : i \in 1..Len(m.ids)}

\* The IDs named by the messages of the given kinds
Mentioned(kinds) ==
  UNION {MsgIds(log[i]) : i \in {j \in 1..Len(log) : log[j].kind \in kinds}}

AllKinds == {"info_csv", "warn_skipped", "warn_missing", "copy", "error",
             "labels", "summary_group", "summary_error"}

\* The groups that have a destination file or a label file
OutGroups == {f.group : f \in outFiles} \cup {f[2] : f \in DOMAIN labelFiles}

\* The rp1 destination file names of a group
Rp1Names(g) == {f.name : f \in {x \in outFiles : x.group = g /\ x.dir = "rp1"}}

\* The subject a destination file rp1_<ID>_T1.nii belongs to
SidOfDst(name) == SubSeq(name, 5, Len(name) - 7)

\* The lines of a label file, none when the file does not exist
LabelFile(kind, g) ==
  IF <<kind, g>> \in DOMAIN labelFiles THEN labelFiles[<<kind, g>>] ELSE <<>>

\* The text of a sex flag
SexText(o) ==
  IF o = Some(1) THEN <<"1">> ELSE IF o = Some(0) THEN <<"0">> ELSE <<"N", "o", "n", "e">>

---------------------------------------------------------------------------
(* Claims *)
\* C1: after a run into an empty output root, line i of subjects_G.txt names
\* the subject of the i-th file of G/rp1<release>/ in the lexicographic order
\* of the file names, for every group G and every set of valid IDs.
C1_LabelOrderMatchesFileOrder ==
  mpc = "done" =>
    \A g \in OutGroups :
      LET files == SortedStrs(Rp1Names(g))
          subjects == LabelFile("subjects", g)
      IN  /\ Len(files) = Len(subjects)
          /\ \A i \in 1..Len(files) : SidOfDst(files[i]) = subjects[i]

\* C2: for a group with resolved subjects s1 < ... < sn, subjects_G, age_G and
\* male_G have n lines each, and line i holds si, the age recorded for si and
\* the sex flag recorded for si.
C2_LabelFilesAligned ==
  mpc \in {"summary", "done"} =>
    \A g \in DOMAIN relabel :
      LET subjects == LabelFile("subjects", g)
          ages == LabelFile("age", g)
          males == LabelFile("male", g)
          n == Cardinality(DOMAIN relabel[g])
      IN  /\ Len(subjects) = n /\ Len(ages) = n /\ Len(males) = n
          /\ {subjects[i] : i \in 1..n} = DOMAIN relabel[g]
          /\ \A i \in 1..(n - 1) : StrLess(subjects[i], subjects[i + 1])
          /\ \A i \in 1..n :
               /\ DigitRun(ages[i], 1) = Len(ages[i])
               /\ DigitsVal(ages[i]) = mapping[subjects[i]][1]
               /\ males[i] = SexText(mapping[subjects[i]][2])

\* C2 witness: a finished run wrote a group of two subjects whose ages differ
C2_Witness ==
  /\ mpc = "done"
  /\ \E g \in DOMAIN relabel :
       \E s1 \in DOMAIN relabel[g], s2 \in DOMAIN relabel[g] :
         s1 # s2 /\ relabel[g][s1][1] # relabel[g][s2][1]

C3_GoodRowYieldsRecord ==
  (ppc \in {"loop", "returned"} /\ ColumnsInOrder) =>
    \A k \in Processed :
      (GoodRow(script, rows[k]) /\ LastOfItsId(k)) =>
        LET sid == Strip(rows[k][1])
        IN  /\ sid \in DOMAIN mapping
            /\ mapping[sid] = <<SpecRound(SpecNumber(rows[k][2])),
                                SpecSex(script, rows[k][3])>>

\* C4: no single data row makes a parser raise: a row that is too short, has a
\* non-numeric age or an unresolvable sex is skipped and counted, every other
\* row is still processed, and a positive skip count is printed as a warning.
C4_RowsNeverRaise ==
  /\ perr \notin {"IndexError", "ValueError"}
  /\ (ppc = "returned" /\ ColumnsInOrder) =>
       /\ rowsDone = Len(rows) - FirstData + 1
       /\ bad_rows >= Cardinality({k \in Processed : DefectRow(script, rows[k])})
       /\ (bad_rows > 0 => \E i \in 1..Len(log) :
                             log[i].kind = "warn_skipped" /\ log[i].n = bad_rows)

\* C5: a row whose sex cell cannot be resolved leaves no entry in the mapping:
\* every value of the mapping has sex 0 or 1.
C5_SexIsBinary ==
  \A sid \in DOMAIN mapping : mapping[sid][2] \in {Some(0), Some(1)}

\* C6: a parser resolves the numeric sex codes of its own convention only:
\* csv2 (B) 1 to male and 2 to female, csv (A) 0 to female and 1 to male; a
\* record stored from a row with any other numeric code has no resolved sex.
C6_OneNumericConvention ==
  (ppc \in {"loop", "returned"} /\ ColumnsInOrder) =>
    \A k \in Processed :
      (/\ Len(rows[k]) >= 3
       /\ IsNumericCode(rows[k][3])
       /\ LastOfItsId(k)
       /\ Strip(rows[k][1]) \in DOMAIN mapping) =>
        LET sex == mapping[Strip(rows[k][1])][2]
            own == SpecSex(script, rows[k][3])
        IN  IF own # None THEN sex = own ELSE sex = None

\* C7: parse_csv takes the first row for a header exactly when none of its
\* cells matches the ID grammar.
C7_HeaderIffNoIdCell ==
  (script = "csv" /\ ppc \in {"loop", "returned"}) =>
    (has_header <=> \A i \in 1..Len(rows[1]) : ~GrammarValid(rows[1][i]))

\* C8: parse_csv entered with names and indices mixed, or with names for only
\* some columns, is rejected with a configuration error before any data row:
\* nothing is processed and no mapping is returned.
C8_MixedSpecRejected ==
  (script = "csv" /\ ppc \in {"returned", "raised"} /\ MixedColumnSpec(EffArgs)) =>
    /\ ppc = "raised"
    /\ perr \in ConfigErrors
    /\ rowsDone = 0
    /\ DOMAIN mapping = {}

\* C10: for every token of the ID grammar, split_sid of each script succeeds,
\* group is the leading letters, and group followed by the ordinal is the
\* token.
C10_SplitSidRoundTrip ==
  \A sc \in sidDone :
    GrammarValid(sidTok) =>
      /\ sidRes[sc].ok
      /\ sidRes[sc].group = SubSeq(sidTok, 1, AlphaRun(sidTok, 1))
      /\ sidRes[sc].group \o sidRes[sc].number = sidTok

---------------------------------------------------------------------------
(* Per-subject failures and the end of a run *)

\* The resolved subjects whose imaging input is missing: no mri/ directory,
\* or mri/ without mwp1 or mwp2
InputMissing == {s \in Resolved : disk[s] \in {"nomri", "nomwp"}}

\* The subjects that have a destination file in a directory rp1 / rp2
DstSids(dir) == {SidOfDst(f.name) : f \in {x \in outFiles : x.dir = dir}}

\* The subjects subjects_G.txt lists
SubjectsListed(g) ==
  {LabelFile("subjects", g)[i] : i \in 1..Len(LabelFile("subjects", g))}

\* The subjects listed in some group's subjects file
LabelledSids == UNION {SubjectsListed(g) : g \in OutGroups}

\* C11: in a finished run, a resolved subject whose imaging input is missing
\* is logged as an error, has no line in a label file and neither an rp1 nor
\* an rp2 destination file; every other resolved subject has both destination
\* files and a line in its group's subjects file; and no missing input aborts
\* the run.
C11_MissingInputIsolated ==
  /\ mpc = "done" =>
       /\ \A s \in InputMissing :
            /\ s \in Mentioned({"error"})
            /\ s \notin Mentioned({"copy"})
            /\ s \notin DstSids("rp1") \cup DstSids("rp2")
            /\ s \notin LabelledSids
       /\ \A s \in Resolved \ InputMissing :
            /\ s \in Mentioned({"copy"})
            /\ s \in DstSids("rp1") \cap DstSids("rp2")
            /\ s \in SubjectsListed(split_sid(script, s).group)
            /\ Len(LabelFile("age", split_sid(script, s).group))
                 = Len(LabelFile("subjects", split_sid(script, s).group))
            /\ Len(LabelFile("male", split_sid(script, s).group))
                 = Len(LabelFile("subjects", split_sid(script, s).group))
  /\ mpc = "aborted" => perr # ""

\* C11 witness: a finished run in which a subject with missing input was
\* visited before a subject of the same group that was copied
C11_Witness ==
  /\ mpc = "done"
  /\ \E s \in InputMissing, t \in Resolved \ InputMissing :
       /\ StrLess(s, t)
       /\ split_sid(script, s).group = split_sid(script, t).group
       /\ disk[s] = "nomwp"

\* The subjects of the run that are in the label source and were copied
CopiedSids == UNION {DOMAIN relabel[g] : g \in DOMAIN relabel}

\* C12: a run that ends with no subject both labelled and copied ends
\* abnormally, and a run with at least one such subject ends normally, after
\* the summary.
C12_ZeroResolvedExitsAbnormally ==
  mpc \in {"done", "aborted"} =>
    /\ CopiedSids = {} => mpc = "aborted"
    /\ CopiedSids # {} =>
         /\ mpc = "done"
         /\ \E i \in 1..Len(log) : log[i].kind = "summary_group"

---------------------------------------------------------------------------
(* Successive runs *)

\* The subjects that have a destination file in directory dir of group g
DstSidsIn(g, dir) ==
  {SidOfDst(f.name) : f \in {x \in outFiles : x.group = g /\ x.dir = dir}}

\* C13: from the start of a run whose label source and subject directories
\* are those of the run before it, to its end, the label files are the ones
\* the run before left: same file names, same lines.
C13_RerunLeavesLabelsIdentical ==
  prev.same => labelFiles = prev.labels

\* C13 witness: a second run on unchanged inputs has finished, after writing
\* the labels of a group of two subjects over those of the first run
C13_Witness ==
  /\ run = 2 /\ prev.same /\ mpc = "done"
  /\ \E g \in DOMAIN relabel : Cardinality(DOMAIN relabel[g]) = 2
  /\ prev.labels # EmptyDict

\* C14: whenever a run has ended, for every group G the IDs listed in
\* subjects_G.txt are the IDs that have an rp1 destination file in G and are
\* the IDs that have an rp2 destination file in G.
C14_LabelsMatchDestinationFiles ==
  mpc \in {"done", "aborted"} =>
    \A g \in OutGroups :
      /\ SubjectsListed(g) = DstSidsIn(g, "rp1")
      /\ SubjectsListed(g) = DstSidsIn(g, "rp2")

=============================================================================
